---- MODULE Spec2Model ----
(***************************************************************************)
(* Model of the outreach agent (src/main.py) and of the adapter policies   *)
(* it drives: the lead validator, the message generator with its           *)
(* rate-limit retry loop, the email sender, the task client, the per-lead  *)
(* workflow process_lead and the campaign loop run_outreach_campaign.      *)
(*                                                                         *)
(* Python values are modelled as tagged records: Str(s) is the string      *)
(* whose characters are the sequence s, None is Python's None.  A lead is  *)
(* a function from a subset of the field names to strings, a store record  *)
(* is a record that may or may not carry a "fields" entry.  External       *)
(* services answer nondeterministically with one of the outcomes their     *)
(* client code distinguishes.                                              *)
(***************************************************************************)
EXTENDS Integers, Sequences, FiniteSets, TLC

\* ------------------------------------------------------------------ bounds
\* largest batch the lead store returns
MaxLeads == 2
\* logical duration of one blocking call to an external service
CallDuration == 1

\* largest max_retries given to generate_outreach_message on its own
MaxRetriesInput == 4

\* longest recipient list given to send_bulk_emails
MaxRecipients == 3
\* largest priority passed to create_task
MaxPriorityInput == 6
\* largest accumulated time and largest counter given to
\* get_performance_metrics
MaxTimeInput == 2
MaxCountInput == 2
\* number of process_lead calls made on an agent before its campaign
MaxDirectCalls == 1

\* ------------------------------------------------------ program constants
\* default of the max_retries parameter of generate_outreach_message
DefaultMaxRetries == 3
\* base of the exponential backoff, in seconds
BackoffBase == 1
\* the priorities the task request accepts
PriorityMin == 1
PriorityMax == 4

\* ----------------------------------------------------------- Python values
None == [type |-> "NoneType"]
Str(s) == [type |-> "str", val |-> s]

IntVal(n) == [type |-> "int", val |-> n]

\* bool(v): None, the empty string and 0 are falsy
Truthy(v) ==
    \/ v.type = "str" /\ Len(v.val) > 0
    \/ v.type = "int" /\ v.val # 0

\* ch in v, for a string v
Contains(ch, v) == \E i \in 1..Len(v.val) : v.val[i] = ch

\* d.get(k, default)
Get(d, k, default) == IF k \in DOMAIN d THEN d[k] ELSE default

\* variant: a product where the power was meant
Pow2_Times(n) == 2 * n

\* 2 ** n
RECURSIVE Pow2(_)
Pow2(n) == IF n <= 0 THEN 1 ELSE 2 * Pow2(n - 1)

\* ------------------------------------------------------------ input domains
Fields == {"Name", "Company", "Email"}

NameValues == {Str(<<>>), Str(<<"J">>)}
CompanyValues == {Str(<<>>), Str(<<"A">>)}
EmailValues == {Str(<<>>), Str(<<"x">>), Str(<<"j", "@", "a">>)}

FieldValues(f) ==
    IF f = "Email" THEN EmailValues
    ELSE IF f = "Company" THEN CompanyValues ELSE NameValues

\* every lead mapping over the sample values: each field absent, empty or set
LeadMappings ==
    UNION { { l \in [D -> NameValues \cup CompanyValues \cup EmailValues] :
                \A f \in D : l[f] \in FieldValues(f) } : D \in SUBSET Fields }

\* a store record: get_leads passes records through unchecked, so a record
\* may lack its "fields" entry
Records ==
    {[id |-> "rec"]} \cup {[id |-> "rec", fields |-> l] : l \in LeadMappings}

Batches == UNION {[1..n -> Records] : n \in 0..MaxLeads}

\* failures of the lead store request
FetchErrors == {"HTTPError", "RequestException", "ValueError"}
\* answers of the generation service to one messages.create call
ServiceOutcomes == {"text", "empty", "RateLimitError", "APIError", "Exception"}
\* results of the SMTP session of one send_email call
TransportOutcomes == {"ok", "SMTPException", "Exception"}
\* results of the HTTP request of one create_task call
HttpOutcomes == {"ok", "HTTPError", "RequestException"}

\* the configuration main() builds
config ==
    [client_info |-> [name |-> Str(<<"S">>)],
     offer |-> Str(<<"o">>),
     clickup_list_id |-> Str(<<"L">>),
     from_email |-> Str(<<"f", "@", "s">>)]

\* ------------------------------------------------------ exception classes
ExceptionParent ==
    [RateLimitError |-> "APIError", APIError |-> "Exception",
     HTTPError |-> "RequestException", RequestException |-> "Exception",
     SMTPException |-> "Exception", ValueError |-> "Exception",
     KeyError |-> "Exception", ZeroDivisionError |-> "ArithmeticError",
     ArithmeticError |-> "Exception", Exception |-> "BaseException"]

\* isinstance(e, cls) on exception class names
RECURSIVE IsInstance(_, _)
IsInstance(e, cls) ==
    IF e = cls THEN TRUE
    ELSE IF e \in DOMAIN ExceptionParent THEN IsInstance(ExceptionParent[e], cls)
    ELSE FALSE

VARIABLES
    pc,                  \* position of the control thread
    leads,               \* the batch get_leads returned
    idx,                 \* number of records the loop has finished
    lead,                \* the lead process_lead is working on
    results,             \* process_lead's results dict
    message,             \* the generated message, or None
    attempt,             \* loop variable of generate_outreach_message
    max_retries,         \* parameter of generate_outreach_message
    campaign_stats,      \* the counters of run_outreach_campaign
    performance_metrics, \* the agent's timing accumulators
    now,                 \* time.time()
    start_time,          \* start_time of the running stage helper
    campaign_start,      \* campaign_start of run_outreach_campaign
    calls,               \* history: every adapter call, with its result
    sleeps,              \* history: every time.sleep, with its lead
    outcomes,            \* history: the results of each processed lead
    exc,                 \* the exception propagating to the caller, if any
    gen_lead,            \* argument lead of generate_outreach_message
    gen_client_info,     \* argument client_info of generate_outreach_message
    email_list,          \* argument email_list of send_bulk_emails
    bulk_subject,        \* argument subject of send_bulk_emails
    bulk_body,           \* argument body of send_bulk_emails
    bulk_i,              \* number of recipients send_bulk_emails has finished
    bulk_results,        \* the results dict of send_bulk_emails
    smtp_state,          \* the SMTP connection of the running send_email
    smtp_log,            \* history: every step of every SMTP session
    send_returns,        \* history: what each send_email call gave its caller
    task_args,           \* arguments of create_task
    request,             \* the JSON body create_task posted, if any
    metrics_report,      \* what get_performance_metrics returned, or None
    env,                 \* the process environment, os.getenv
    agent,               \* whether the agent and its clients are constructed
    exit_status,         \* the status of sys.exit, or None
    summary,             \* what main printed, or None
    caller               \* who called process_lead

\* the state of the adapters when they are exercised on their own
adapterVars == <<gen_lead, gen_client_info, email_list, bulk_subject,
                 bulk_body,
                 bulk_i, bulk_results, smtp_state, smtp_log, send_returns,
                 task_args, request>>

\* the process around the agent
mainVars == <<metrics_report, env, agent, exit_status, summary, caller>>

vars == <<pc, leads, idx, lead, results, message, attempt, max_retries,
          campaign_stats, performance_metrics, now, start_time,
          campaign_start, calls, sleeps, outcomes, exc, adapterVars,
          mainVars>>

NoException == [type |-> "none", origin |-> "none"]

InitialResults ==
    [validation |-> FALSE, message_generation |-> FALSE,
     email_sent |-> FALSE, task_created |-> FALSE]

InitialStats ==
    [total_leads |-> 0, validated_leads |-> 0, messages_generated |-> 0,
     emails_sent |-> 0, tasks_created |-> 0, failed_leads |-> 0]

InitialMetrics ==
    [total_processing_time |-> 0, message_generation_time |-> 0,
     email_sending_time |-> 0, task_creation_time |-> 0]

\* the results dict send_bulk_emails starts from
InitialReport(n) ==
    [total |-> n, successful |-> 0, failed |-> 0, errors |-> <<>>]

\* create_task has posted nothing
NoRequest == [sent |-> FALSE]

\* ---------------------------------------------------------- lead validator
\* variant: the "@" test of the address is left out
validate_lead_data_NoAtTest(l) ==
    {f \in Fields : ~Truthy(Get(l, f, None))} = {}

\* variant: a field counts as missing only when it is absent
validate_lead_data_AbsentOnly(l) ==
    /\ Fields \subseteq DOMAIN l
    /\ Contains("@", l["Email"])

validate_lead_data(l) ==
    LET missing_fields == {f \in Fields : ~Truthy(Get(l, f, None))}
    IN  IF missing_fields # {} THEN FALSE
        ELSE IF ~Contains("@", Get(l, "Email", Str(<<>>))) THEN FALSE
        ELSE TRUE

\* ------------------------------------------------------- message generator
\* variant: only the lead is checked, the client profile is not
MissingField_LeadOnly(lead_dict, client_info) ==
    ~({"name", "company"} \subseteq DOMAIN lead_dict)

\* the missing-field check that precedes the retry loop
MissingField(lead_dict, client_info) ==
    \/ ~({"name", "company"} \subseteq DOMAIN lead_dict)
    \/ "name" \notin DOMAIN client_info

\* variant: the last allowed attempt is retried as well
AttemptResult_RetryLast(att, mr, svc) ==
    IF svc = "text" THEN [kind |-> "return", value |-> Str(<<"m">>)]
    ELSE IF svc = "empty" THEN [kind |-> "return", value |-> Str(<<>>)]
    ELSE IF IsInstance(svc, "RateLimitError")
    THEN IF att <= mr
         THEN [kind |-> "retry", wait |-> Pow2(att) * BackoffBase]
         ELSE [kind |-> "raise", error |-> svc]
    ELSE [kind |-> "raise", error |-> svc]

\* variant: every error of the service's API is retried like a rate limit
AttemptResult_RetryApiErrors(att, mr, svc) ==
    IF svc = "text" THEN [kind |-> "return", value |-> Str(<<"m">>)]
    ELSE IF svc = "empty" THEN [kind |-> "return", value |-> Str(<<>>)]
    ELSE IF IsInstance(svc, "APIError")
    THEN IF att < mr
         THEN [kind |-> "retry", wait |-> Pow2(att) * BackoffBase]
         ELSE [kind |-> "raise", error |-> svc]
    ELSE [kind |-> "raise", error |-> svc]

\* one iteration of the retry loop, given the service's answer
AttemptResult(att, mr, svc) ==
    IF svc = "text" THEN [kind |-> "return", value |-> Str(<<"m">>)]
    ELSE IF svc = "empty" THEN [kind |-> "return", value |-> Str(<<>>)]
    ELSE IF IsInstance(svc, "RateLimitError")
    THEN IF att < mr
         THEN [kind |-> "retry", wait |-> Pow2(att) * BackoffBase]
         ELSE [kind |-> "raise", error |-> svc]
    ELSE [kind |-> "raise", error |-> svc]

\* ------------------------------------------------------------ email sender
\* variant: the "@" test of the recipient is left out
send_email_NoAtTest(to_email, subject, body, transport) ==
    IF ~(Truthy(to_email) /\ Truthy(subject) /\ Truthy(body)) THEN "ValueError"
    ELSE transport

send_email(to_email, subject, body, transport) ==
    IF ~(Truthy(to_email) /\ Truthy(subject) /\ Truthy(body)) THEN "ValueError"
    ELSE IF ~Contains("@", to_email) THEN "ValueError"
    ELSE transport

\* ------------------------------------------------------------- task client
create_task(list_id, name, http) ==
    IF ~Truthy(list_id) \/ ~Truthy(name) THEN "ValueError"
    ELSE http

\* ------------------------------------------- the agent's exception handlers
\* `except Exception` of _generate_personalized_message
GenerateCatches(e) == IsInstance(e, "Exception")
\* variant: only the SMTP failures are handled
EmailCatches_SmtpOnly(e) == IsInstance(e, "SMTPException")

\* `except Exception` of _send_outreach_email
EmailCatches(e) == IsInstance(e, "Exception")
\* `except Exception` of _create_followup_task
TaskCatches(e) == IsInstance(e, "Exception")

\* variant: the handler logs the failure and lets the campaign return
CampaignExcept_Swallow(e, origin) ==
    [pc |-> "returned", exc |-> [type |-> "none", origin |-> "none"]]

\* the handler around the body of run_outreach_campaign: it logs and
\* re-raises, so the exception reaches the caller and nothing is returned
CampaignExcept(e, origin) ==
    [pc |-> "raised", exc |-> [type |-> e, origin |-> origin]]

\* variant: process_lead goes on to the email stage without testing the message
AfterGeneration_NoTest(msg) == "email"

\* where process_lead goes after _generate_personalized_message returned
AfterGeneration(msg) == IF ~Truthy(msg) THEN "aggregate" ELSE "email"
\* variant: the task is created only when the email went out
AfterEmail_OnlyIfSent(sent) == IF sent THEN "task" ELSE "aggregate"

\* where process_lead goes after _send_outreach_email returned
AfterEmail(sent) == "task"
\* variant: a failed task creation is tried again
AfterTask_Retry(created) == IF created THEN "aggregate" ELSE "task"

\* where process_lead goes after _create_followup_task returned
AfterTask(created) == "aggregate"

\* an environment with no variable set
NoEnv == [v \in {} |-> None]

\* no main is running around the agent
ProcessIdle ==
    /\ metrics_report = None
    /\ env = NoEnv
    /\ exit_status = None
    /\ summary = None

\* no adapter is being exercised on its own
AdaptersIdle ==
    /\ gen_lead = [id |-> "none"]
    /\ gen_client_info = config.client_info
    /\ email_list = <<>>
    /\ bulk_subject = None
    /\ bulk_body = None
    /\ bulk_i = 0
    /\ bulk_results = InitialReport(0)
    /\ smtp_state = "none"
    /\ smtp_log = <<>>
    /\ send_returns = <<>>
    /\ task_args = [id |-> "none"]
    /\ request = NoRequest

Init ==
    /\ pc = "start"
    /\ leads = <<>>
    /\ idx = 0
    /\ lead = [id |-> "none"]
    /\ results = InitialResults
    /\ message = None
    /\ attempt = 0
    /\ max_retries = DefaultMaxRetries
    /\ campaign_stats = InitialStats
    /\ performance_metrics = InitialMetrics
    /\ now = 0
    /\ start_time = 0
    /\ campaign_start = 0
    /\ calls = <<>>
    /\ sleeps = <<>>
    /\ outcomes = <<>>
    /\ exc = NoException
    /\ AdaptersIdle
    /\ ProcessIdle
    /\ agent = "constructed"
    /\ caller = "run_outreach_campaign"

\* ------------------------------------------------- run_outreach_campaign
\* entry of run_outreach_campaign up to a failing get_leads: the request
\* fails, get_leads re-raises and so does the campaign's handler
GetLeadsFails ==
    /\ pc = "start"
    /\ UNCHANGED <<adapterVars, mainVars>>
    /\ \E e \in FetchErrors :
         /\ exc' = CampaignExcept(e, "get_leads").exc
         /\ pc' = CampaignExcept(e, "get_leads").pc
    /\ campaign_start' = now
    /\ campaign_stats' = InitialStats
    /\ now' = now + CallDuration
    /\ calls' = Append(calls, [lead |-> 0, op |-> "get_leads", result |-> "error"])
    /\ UNCHANGED <<leads, idx, lead, results, message, attempt, max_retries,
                   performance_metrics, start_time, sleeps, outcomes>>

\* entry of run_outreach_campaign up to the loop: get_leads returns a batch
GetLeadsReturns ==
    /\ pc = "start"
    /\ UNCHANGED <<adapterVars, mainVars>>
    /\ \E batch \in Batches :
         /\ leads' = batch
         /\ campaign_stats' = [InitialStats EXCEPT !.total_leads = Len(batch)]
    /\ campaign_start' = now
    /\ now' = now + CallDuration
    /\ calls' = Append(calls, [lead |-> 0, op |-> "get_leads", result |-> "ok"])
    /\ idx' = 0
    /\ pc' = "loop"
    /\ UNCHANGED <<lead, results, message, attempt, max_retries,
                   performance_metrics, start_time, sleeps, outcomes, exc>>

\* one iteration of the loop takes the next record, reads record['fields']
\* and enters process_lead: results is initialised and the lead validated
BeginLead ==
    /\ pc = "loop"
    /\ UNCHANGED <<adapterVars, mainVars>>
    /\ idx < Len(leads)
    /\ LET record == leads[idx + 1] IN
         IF "fields" \notin DOMAIN record
         THEN /\ exc' = CampaignExcept("KeyError", "record_fields").exc
              /\ pc' = CampaignExcept("KeyError", "record_fields").pc
              /\ UNCHANGED <<lead, results, message, attempt, start_time>>
         ELSE /\ lead' = record.fields
              /\ message' = None
              /\ attempt' = 0
              /\ start_time' = now
              /\ IF validate_lead_data(record.fields)
                 THEN /\ results' = [InitialResults EXCEPT !.validation = TRUE]
                      /\ pc' = "generate"
                 ELSE /\ results' = InitialResults
                      /\ pc' = "aggregate"
              /\ exc' = exc
    /\ UNCHANGED <<leads, idx, max_retries, campaign_stats,
                   performance_metrics, now, campaign_start, calls, sleeps,
                   outcomes>>

\* what _generate_personalized_message and process_lead do with an exception
\* of generate_outreach_message: absorbed into a None message, or propagated
GenerationRaised(e) ==
    IF GenerateCatches(e)
    THEN /\ message' = None
         /\ pc' = AfterGeneration(None)
         /\ exc' = exc
    ELSE /\ message' = message
         /\ pc' = CampaignExcept(e, "process_lead").pc
         /\ exc' = CampaignExcept(e, "process_lead").exc

\* one attempt of generate_outreach_message inside
\* _generate_personalized_message, and what process_lead does with the result
GenerateAttempt ==
    /\ pc = "generate"
    /\ UNCHANGED <<adapterVars, mainVars>>
    /\ attempt < max_retries + 1
    /\ LET lead_dict == [name |-> lead["Name"], company |-> lead["Company"]] IN
         IF MissingField(lead_dict, config.client_info)
         THEN /\ GenerationRaised("ValueError")
              /\ UNCHANGED <<attempt, results, performance_metrics, now,
                             calls, sleeps>>
         ELSE \E svc \in ServiceOutcomes :
           LET r == AttemptResult(attempt, max_retries, svc) IN
             /\ calls' = Append(calls, [lead |-> idx + 1, op |-> "generate",
                                        result |-> svc])
             /\ CASE r.kind = "return" ->
                       /\ now' = now + CallDuration
                       /\ message' = r.value
                       /\ performance_metrics' =
                            [performance_metrics EXCEPT
                               !.message_generation_time =
                                   @ + (now + CallDuration - start_time)]
                       /\ pc' = AfterGeneration(r.value)
                       /\ results' =
                            IF AfterGeneration(r.value) = "email"
                            THEN [results EXCEPT !.message_generation = TRUE]
                            ELSE results
                       /\ UNCHANGED <<attempt, sleeps, exc>>
                  [] r.kind = "retry" ->
                       /\ now' = now + CallDuration + r.wait
                       /\ sleeps' = Append(sleeps, [lead |-> idx + 1,
                                                   wait |-> r.wait,
                                                   after |-> Len(calls) + 1])
                       /\ attempt' = attempt + 1
                       /\ UNCHANGED <<message, results, performance_metrics,
                                      pc, exc>>
                  [] r.kind = "raise" ->
                       /\ now' = now + CallDuration
                       /\ GenerationRaised(r.error)
                       /\ UNCHANGED <<attempt, results, performance_metrics,
                                      sleeps>>
    /\ UNCHANGED <<leads, idx, lead, max_retries, campaign_stats, start_time,
                   campaign_start, outcomes>>

\* _send_outreach_email, called by process_lead once a message exists
SendOutreachEmail ==
    /\ pc = "email"
    /\ UNCHANGED <<adapterVars, mainVars>>
    /\ \E transport \in TransportOutcomes :
         LET subject == Str(<<"L">> \o lead["Company"].val \o <<"!">>)
             r == send_email(lead["Email"], subject, message, transport)
             \* the SMTP session takes time only when the inputs were accepted
             elapsed == IF r = "ValueError" THEN 0 ELSE CallDuration
         IN  /\ calls' = Append(calls, [lead |-> idx + 1, op |-> "send_email",
                                        result |-> r])
             /\ now' = now + elapsed
             /\ IF r = "ok"
                THEN /\ performance_metrics' =
                          [performance_metrics EXCEPT
                             !.email_sending_time = @ + elapsed]
                     /\ results' = [results EXCEPT !.email_sent = TRUE]
                     /\ pc' = AfterEmail(TRUE)
                     /\ exc' = exc
                ELSE IF EmailCatches(r)
                THEN /\ pc' = AfterEmail(FALSE)
                     /\ UNCHANGED <<performance_metrics, results, exc>>
                ELSE /\ pc' = CampaignExcept(r, "process_lead").pc
                     /\ exc' = CampaignExcept(r, "process_lead").exc
                     /\ UNCHANGED <<performance_metrics, results>>
    /\ UNCHANGED <<leads, idx, lead, message, attempt, max_retries,
                   campaign_stats, start_time, campaign_start, sleeps,
                   outcomes>>

\* _create_followup_task, called by process_lead after the email stage
CreateFollowupTask ==
    /\ pc = "task"
    /\ UNCHANGED <<adapterVars, mainVars>>
    /\ \E http \in HttpOutcomes :
         LET task_name == Str(<<"F">> \o lead["Name"].val \o <<"a">>
                              \o lead["Company"].val)
             r == create_task(config.clickup_list_id, task_name, http)
             elapsed == IF r = "ValueError" THEN 0 ELSE CallDuration
         IN  /\ calls' = Append(calls, [lead |-> idx + 1, op |-> "create_task",
                                        result |-> r])
             /\ now' = now + elapsed
             /\ IF r = "ok"
                THEN /\ performance_metrics' =
                          [performance_metrics EXCEPT
                             !.task_creation_time = @ + elapsed]
                     /\ results' = [results EXCEPT !.task_created = TRUE]
                     /\ pc' = AfterTask(TRUE)
                     /\ exc' = exc
                ELSE IF TaskCatches(r)
                THEN /\ pc' = AfterTask(FALSE)
                     /\ UNCHANGED <<performance_metrics, results, exc>>
                ELSE /\ pc' = CampaignExcept(r, "process_lead").pc
                     /\ exc' = CampaignExcept(r, "process_lead").exc
                     /\ UNCHANGED <<performance_metrics, results>>
    /\ UNCHANGED <<leads, idx, lead, message, attempt, max_retries,
                   campaign_stats, start_time, campaign_start, sleeps,
                   outcomes>>

\* variant: a lead counts as failed when neither email nor task succeeded
AnyResult_EmailOrTask(res) == res.email_sent \/ res.task_created

\* any(results.values())
AnyResult(res) ==
    res.validation \/ res.message_generation \/ res.email_sent
        \/ res.task_created

\* variant: validated_leads is driven by the message_generation outcome
UpdateStats_ValidatedOnMessage(stats, res) ==
    [stats EXCEPT
       !.validated_leads = IF res.message_generation THEN @ + 1 ELSE @,
       !.messages_generated = IF res.message_generation THEN @ + 1 ELSE @,
       !.emails_sent = IF res.email_sent THEN @ + 1 ELSE @,
       !.tasks_created = IF res.task_created THEN @ + 1 ELSE @,
       !.failed_leads = IF ~(res.validation \/ res.message_generation
                              \/ res.email_sent \/ res.task_created)
                        THEN @ + 1 ELSE @]

\* variant: tasks_created is driven by the email_sent outcome
UpdateStats_TasksOnEmail(stats, res) ==
    [stats EXCEPT
       !.validated_leads = IF res.validation THEN @ + 1 ELSE @,
       !.messages_generated = IF res.message_generation THEN @ + 1 ELSE @,
       !.emails_sent = IF res.email_sent THEN @ + 1 ELSE @,
       !.tasks_created = IF res.email_sent THEN @ + 1 ELSE @,
       !.failed_leads = IF ~(res.validation \/ res.message_generation
                              \/ res.email_sent \/ res.task_created)
                        THEN @ + 1 ELSE @]

\* the counter updates of the loop body for one lead's results
UpdateStats(stats, res) ==
    [stats EXCEPT
       !.validated_leads = IF res.validation THEN @ + 1 ELSE @,
       !.messages_generated = IF res.message_generation THEN @ + 1 ELSE @,
       !.emails_sent = IF res.email_sent THEN @ + 1 ELSE @,
       !.tasks_created = IF res.task_created THEN @ + 1 ELSE @,
       !.failed_leads = IF ~AnyResult(res) THEN @ + 1 ELSE @]

\* process_lead has returned: the loop body updates the counters
Aggregate ==
    /\ pc = "aggregate"
    /\ caller = "run_outreach_campaign"
    /\ UNCHANGED <<adapterVars, mainVars>>
    /\ campaign_stats' = UpdateStats(campaign_stats, results)
    /\ outcomes' = Append(outcomes, results)
    /\ idx' = idx + 1
    /\ pc' = "loop"
    /\ UNCHANGED <<leads, lead, results, message, attempt, max_retries,
                   performance_metrics, now, start_time, campaign_start,
                   calls, sleeps, exc>>

\* the loop is over: total time is recorded and the counters are returned
CampaignReturns ==
    /\ pc = "loop"
    /\ UNCHANGED <<adapterVars, mainVars>>
    /\ idx = Len(leads)
    /\ performance_metrics' =
         [performance_metrics EXCEPT
            !.total_processing_time = now - campaign_start]
    /\ pc' = "returned"
    /\ UNCHANGED <<leads, idx, lead, results, message, attempt, max_retries,
                   campaign_stats, now, start_time, campaign_start, calls,
                   sleeps, outcomes, exc>>

Next ==
    \/ GetLeadsFails
    \/ GetLeadsReturns
    \/ BeginLead
    \/ GenerateAttempt
    \/ SendOutreachEmail
    \/ CreateFollowupTask
    \/ Aggregate
    \/ CampaignReturns

Spec == Init /\ [][Next]_vars

\* the campaign's own state, untouched while an adapter runs on its own
campaignVars == <<leads, idx, lead, results, campaign_stats,
                  performance_metrics, start_time, campaign_start, outcomes,
                  mainVars>>

CampaignIdle ==
    /\ leads = <<>>
    /\ idx = 0
    /\ lead = [id |-> "none"]
    /\ results = InitialResults
    /\ campaign_stats = InitialStats
    /\ performance_metrics = InitialMetrics
    /\ start_time = 0
    /\ campaign_start = 0
    /\ outcomes = <<>>
    /\ ProcessIdle
    /\ agent = "none"
    /\ caller = "none"

\* ------------------------------- generate_outreach_message, on its own
\* the lead dicts and client profiles a caller can pass
GenLeadInputs ==
    UNION {[D -> {Str(<<"n">>)}] : D \in SUBSET {"name", "company"}}
GenClientInputs == {[name |-> Str(<<"S">>)], [site |-> Str(<<"w">>)]}
RetriesInputs == (0 - 1)..MaxRetriesInput

InitGen ==
    /\ pc = "gen_start"
    /\ max_retries \in RetriesInputs
    /\ gen_lead \in GenLeadInputs
    /\ gen_client_info \in GenClientInputs
    /\ attempt = 0
    /\ message = None
    /\ now = 0
    /\ calls = <<>>
    /\ sleeps = <<>>
    /\ exc = NoException
    /\ CampaignIdle
    /\ email_list = <<>>
    /\ bulk_subject = None
    /\ bulk_body = None
    /\ bulk_i = 0
    /\ bulk_results = InitialReport(0)
    /\ smtp_state = "none"
    /\ smtp_log = <<>>
    /\ send_returns = <<>>
    /\ task_args = [id |-> "none"]
    /\ request = NoRequest

\* what generate_outreach_message leaves unchanged
genFrame == <<campaignVars, max_retries, gen_lead, gen_client_info,
              email_list, bulk_subject, bulk_body, bulk_i, bulk_results,
              smtp_state, smtp_log, send_returns, task_args, request>>

\* the missing-field checks and the prompt, before the retry loop
GenEnter ==
    /\ pc = "gen_start"
    /\ IF MissingField(gen_lead, gen_client_info)
       THEN /\ pc' = "gen_raised"
            /\ exc' = [type |-> "ValueError",
                       origin |-> "generate_outreach_message"]
       ELSE /\ pc' = "gen_loop"
            /\ exc' = exc
    /\ attempt' = 0
    /\ UNCHANGED <<message, now, calls, sleeps, genFrame>>

\* one iteration of `for attempt in range(max_retries + 1)`
GenAttempt ==
    /\ pc = "gen_loop"
    /\ attempt < max_retries + 1
    /\ \E svc \in ServiceOutcomes :
         LET r == AttemptResult(attempt, max_retries, svc) IN
           /\ calls' = Append(calls, [lead |-> 1, op |-> "generate",
                                      result |-> svc])
           /\ CASE r.kind = "return" ->
                     /\ now' = now + CallDuration
                     /\ message' = r.value
                     /\ pc' = "gen_returned"
                     /\ UNCHANGED <<attempt, sleeps, exc>>
                [] r.kind = "retry" ->
                     /\ now' = now + CallDuration + r.wait
                     /\ sleeps' = Append(sleeps, [lead |-> 1,
                                                 wait |-> r.wait,
                                                 after |-> Len(calls) + 1])
                     /\ attempt' = attempt + 1
                     /\ UNCHANGED <<message, pc, exc>>
                [] r.kind = "raise" ->
                     /\ now' = now + CallDuration
                     /\ exc' = [type |-> r.error,
                                origin |-> "generate_outreach_message"]
                     /\ pc' = "gen_raised"
                     /\ UNCHANGED <<attempt, message, sleeps>>
    /\ UNCHANGED genFrame

\* the range is exhausted without a return or a raise: the function ends
\* and the caller gets None
GenLoopExhausted ==
    /\ pc = "gen_loop"
    /\ ~(attempt < max_retries + 1)
    /\ message' = None
    /\ pc' = "gen_returned"
    /\ UNCHANGED <<attempt, now, calls, sleeps, exc, genFrame>>

NextGen == GenEnter \/ GenAttempt \/ GenLoopExhausted

SpecGen == InitGen /\ [][NextGen]_vars


\* --------------------------------------- send_bulk_emails and send_email
RecipientInputs == {Str(<<>>), Str(<<"x">>), Str(<<"j", "@", "a">>)}
TextInputs == {Str(<<>>), Str(<<"s">>)}
RecipientLists == UNION {[1..n -> RecipientInputs] : n \in 0..MaxRecipients}

InitBulk ==
    /\ pc = "bulk_start"
    /\ email_list \in RecipientLists
    /\ bulk_subject \in TextInputs
    /\ bulk_body \in TextInputs
    /\ bulk_i = 0
    /\ bulk_results = InitialReport(0)
    /\ smtp_state = "none"
    /\ smtp_log = <<>>
    /\ send_returns = <<>>
    /\ exc = NoException
    /\ CampaignIdle
    /\ message = None
    /\ attempt = 0
    /\ max_retries = DefaultMaxRetries
    /\ now = 0
    /\ calls = <<>>
    /\ sleeps = <<>>
    /\ gen_lead = [id |-> "none"]
    /\ gen_client_info = config.client_info
    /\ task_args = [id |-> "none"]
    /\ request = NoRequest

\* what the email sender leaves unchanged
bulkFrame == <<campaignVars, message, attempt, max_retries, now, calls,
               sleeps, gen_lead, gen_client_info, task_args, request,
               email_list, bulk_subject, bulk_body>>

\* the steps of the SMTP session inside the `with` block, by connection state
SmtpStepAt(st) ==
    CASE st = "connected" -> "starttls"
      [] st = "tls" -> "login"
      [] st = "auth" -> "send_message"

\* the connection state a successful step leads to
SmtpStateAfter(step) ==
    CASE step = "connect" -> "connected"
      [] step = "starttls" -> "tls"
      [] step = "login" -> "auth"
      [] step = "send_message" -> "sent"

\* variant: the connection is quit after the transmission only
CloseOnExit_OnlyAfterSend(st) == IF st = "sent" THEN "none" ELSE st

\* leaving the `with smtplib.SMTP(...)` block closes the connection,
\* whether the block ended normally or by an exception
CloseOnExit(st) == "none"

\* variant: only SMTP failures are handled by the bulk loop
BulkCatches_SmtpOnly(e) == IsInstance(e, "SMTPException")

\* `except Exception` of the loop body of send_bulk_emails
BulkCatches(e) == IsInstance(e, "Exception")

\* variant: the newest error is put in front of the list
BulkRecord_ErrorsInFront(report, email, r) ==
    IF r = "ok"
    THEN [report EXCEPT !.successful = @ + 1]
    ELSE [report EXCEPT !.failed = @ + 1,
                        !.errors = <<[email |-> email, error |-> r]>> \o @]

\* the loop body of send_bulk_emails: account for one send_email result
BulkRecord(report, email, r) ==
    IF r = "ok"
    THEN [report EXCEPT !.successful = @ + 1]
    ELSE [report EXCEPT !.failed = @ + 1,
                        !.errors = Append(@, [email |-> email, error |-> r])]

\* send_email ends with result r for the current recipient and the loop
\* body of send_bulk_emails handles it
FinishSend(r) ==
    LET email == email_list[bulk_i + 1] IN
      /\ send_returns' = Append(send_returns,
                                [rcpt |-> bulk_i + 1, email |-> email,
                                 result |-> r])
      /\ IF r = "ok" \/ BulkCatches(r)
         THEN /\ bulk_results' = BulkRecord(bulk_results, email, r)
              /\ bulk_i' = bulk_i + 1
              /\ pc' = "bulk_loop"
              /\ exc' = exc
         ELSE /\ pc' = "bulk_raised"
              /\ exc' = [type |-> r, origin |-> "send_bulk_emails"]
              /\ UNCHANGED <<bulk_results, bulk_i>>

\* send_bulk_emails is called: the report is set up
BulkBegin ==
    /\ pc = "bulk_start"
    /\ bulk_results' = InitialReport(Len(email_list))
    /\ bulk_i' = 0
    /\ pc' = "bulk_loop"
    /\ UNCHANGED <<smtp_state, smtp_log, send_returns, exc, bulkFrame>>

\* the loop calls send_email for the next recipient: the inputs are checked
\* and, if accepted, the connection is opened
SendEmailEnter ==
    /\ pc = "bulk_loop"
    /\ bulk_i < Len(email_list)
    /\ LET to_email == email_list[bulk_i + 1] IN
         IF send_email(to_email, bulk_subject, bulk_body, "ok") = "ValueError"
         THEN /\ FinishSend("ValueError")
              /\ UNCHANGED <<smtp_state, smtp_log>>
         ELSE \E o \in TransportOutcomes :
                /\ smtp_log' = Append(smtp_log, [rcpt |-> bulk_i + 1,
                                                 step |-> "connect",
                                                 result |-> o])
                /\ IF o = "ok"
                   THEN /\ smtp_state' = SmtpStateAfter("connect")
                        /\ pc' = "smtp"
                        /\ UNCHANGED <<send_returns, bulk_results, bulk_i, exc>>
                   ELSE /\ smtp_state' = smtp_state
                        /\ FinishSend(send_email(to_email, bulk_subject,
                                                 bulk_body, o))
    /\ UNCHANGED bulkFrame

\* one step of the session: starttls, login or send_message; a failure, or
\* the end of the block after send_message, leaves the `with` block
SmtpStep ==
    /\ pc = "smtp"
    /\ smtp_state \in {"connected", "tls", "auth"}
    /\ \E o \in TransportOutcomes :
         LET step == SmtpStepAt(smtp_state)
             entry == [rcpt |-> bulk_i + 1, step |-> step, result |-> o]
             close == [rcpt |-> bulk_i + 1, step |-> "close", result |-> "ok"]
             to_email == email_list[bulk_i + 1]
         IN  IF o = "ok" /\ step # "send_message"
             THEN /\ smtp_state' = SmtpStateAfter(step)
                  /\ smtp_log' = Append(smtp_log, entry)
                  /\ UNCHANGED <<pc, send_returns, bulk_results, bulk_i, exc>>
             ELSE LET reached == IF o = "ok" THEN SmtpStateAfter(step)
                                 ELSE smtp_state
                  IN  /\ smtp_state' = CloseOnExit(reached)
                      /\ smtp_log' =
                           IF CloseOnExit(reached) = "none"
                           THEN smtp_log \o <<entry, close>>
                           ELSE Append(smtp_log, entry)
                      /\ FinishSend(send_email(to_email, bulk_subject,
                                               bulk_body, o))
    /\ UNCHANGED bulkFrame

\* the loop is over: the report is returned
BulkReturns ==
    /\ pc = "bulk_loop"
    /\ bulk_i = Len(email_list)
    /\ pc' = "bulk_returned"
    /\ UNCHANGED <<bulk_i, bulk_results, smtp_state, smtp_log, send_returns,
                   exc, bulkFrame>>

NextBulk == BulkBegin \/ SendEmailEnter \/ SmtpStep \/ BulkReturns

SpecBulk == InitBulk /\ [][NextBulk]_vars

\* --------------------------------------------------- create_task, on its own
TaskIdInputs == {Str(<<>>), Str(<<"L">>)}
TaskNameInputs == {Str(<<>>), Str(<<"n">>)}
TaskTextInputs == {None, Str(<<>>), Str(<<"d">>)}
PriorityInputs == {None} \cup {IntVal(p) : p \in (0 - 2)..MaxPriorityInput}

InitTask ==
    /\ pc = "task_start"
    /\ task_args \in [list_id : TaskIdInputs, name : TaskNameInputs,
                      description : TaskTextInputs, due_date : TaskTextInputs,
                      priority : PriorityInputs]
    /\ request = NoRequest
    /\ exc = NoException
    /\ CampaignIdle
    /\ message = None
    /\ attempt = 0
    /\ max_retries = DefaultMaxRetries
    /\ now = 0
    /\ calls = <<>>
    /\ sleeps = <<>>
    /\ gen_lead = [id |-> "none"]
    /\ gen_client_info = config.client_info
    /\ email_list = <<>>
    /\ bulk_subject = None
    /\ bulk_body = None
    /\ bulk_i = 0
    /\ bulk_results = InitialReport(0)
    /\ smtp_state = "none"
    /\ smtp_log = <<>>
    /\ send_returns = <<>>

\* what the task client leaves unchanged
taskFrame == <<campaignVars, message, attempt, max_retries, now, calls,
               sleeps, gen_lead, gen_client_info, email_list, bulk_subject,
               bulk_body, bulk_i, bulk_results, smtp_state, smtp_log,
               send_returns, task_args>>

\* variant: every non-zero priority is attached
PriorityAttached_AnyTruthy(priority) == Truthy(priority)

\* `if priority and 1 <= priority <= 4`
PriorityAttached(priority) ==
    /\ Truthy(priority)
    /\ PriorityMin <= priority.val
    /\ priority.val <= PriorityMax

\* the JSON body: the name, and each optional field that passes its test
TaskData(args) ==
    LET keys == {"name"}
                \cup (IF Truthy(args.description) THEN {"description"} ELSE {})
                \cup (IF Truthy(args.due_date) THEN {"due_date"} ELSE {})
                \cup (IF PriorityAttached(args.priority)
                      THEN {"priority"} ELSE {})
    IN  [k \in keys |-> args[k]]

\* list_id or name is missing: ValueError before the try block
CreateTaskRejects ==
    /\ pc = "task_start"
    /\ create_task(task_args.list_id, task_args.name, "ok") = "ValueError"
    /\ pc' = "task_raised"
    /\ exc' = [type |-> "ValueError", origin |-> "create_task"]
    /\ UNCHANGED <<request, taskFrame>>

\* the body is built and posted to the list's task URL
CreateTaskPosts ==
    /\ pc = "task_start"
    /\ create_task(task_args.list_id, task_args.name, "ok") # "ValueError"
    /\ request' = [sent |-> TRUE, list_id |-> task_args.list_id,
                   json |-> TaskData(task_args), response |-> "pending"]
    /\ pc' = "task_posted"
    /\ UNCHANGED <<exc, taskFrame>>

\* the post answers: the response's JSON is returned, or the failure is
\* logged by its handler and raised again
CreateTaskResponds ==
    /\ pc = "task_posted"
    /\ \E http \in HttpOutcomes :
          LET r == create_task(task_args.list_id, task_args.name, http)
          IN  /\ request' = [request EXCEPT !.response = r]
              /\ IF r = "ok"
                 THEN pc' = "task_returned" /\ UNCHANGED exc
                 ELSE /\ pc' = "task_raised"
                      /\ exc' = [type |-> r, origin |-> "create_task"]
    /\ UNCHANGED taskFrame

NextTask == CreateTaskRejects \/ CreateTaskPosts \/ CreateTaskResponds

SpecTask == InitTask /\ [][NextTask]_vars

\* ------------------------------------- get_performance_metrics, on its own
\* variant: the counter is used as it is
SafeCount_Raw(stats, key) == Get(stats, key, 1)

\* max(campaign_stats.get(key, 1), 1)
SafeCount(stats, key) ==
    LET c == Get(stats, key, 1) IN IF c > 1 THEN c ELSE 1

\* num / den on floats: the exact quotient, or the error of a zero divisor
Divide(num, den) ==
    IF den = 0 THEN [type |-> "ZeroDivisionError"]
    ELSE [type |-> "float", num |-> num, den |-> den]

\* the dict get_performance_metrics builds from the agent's accumulators
\* and the counters it is given
get_performance_metrics(metrics, stats) ==
    [total_processing_time |-> metrics.total_processing_time,
     message_generation_time |-> metrics.message_generation_time,
     email_sending_time |-> metrics.email_sending_time,
     task_creation_time |-> metrics.task_creation_time,
     average_message_time |->
         Divide(metrics.message_generation_time,
                SafeCount(stats, "messages_generated")),
     average_email_time |->
         Divide(metrics.email_sending_time, SafeCount(stats, "emails_sent")),
     average_task_time |->
         Divide(metrics.task_creation_time, SafeCount(stats, "tasks_created"))]

\* the three averages of the returned dict
AverageKeys == {"average_message_time", "average_email_time",
                "average_task_time"}

\* building the dict raises when one of its divisions does
MetricsRaise(metrics, stats) ==
    \E a \in AverageKeys :
       get_performance_metrics(metrics, stats)[a].type = "ZeroDivisionError"

CounterKeys == {"messages_generated", "emails_sent", "tasks_created"}
MetricsInputs == [DOMAIN InitialMetrics -> 0..MaxTimeInput]
StatsInputs == UNION {[D -> 0..MaxCountInput] : D \in SUBSET CounterKeys}

InitMetrics ==
    /\ pc = "metrics_start"
    /\ performance_metrics \in MetricsInputs
    /\ campaign_stats \in StatsInputs
    /\ metrics_report = None
    /\ exc = NoException
    /\ leads = <<>>
    /\ idx = 0
    /\ lead = [id |-> "none"]
    /\ results = InitialResults
    /\ start_time = 0
    /\ campaign_start = 0
    /\ outcomes = <<>>
    /\ message = None
    /\ attempt = 0
    /\ max_retries = DefaultMaxRetries
    /\ now = 0
    /\ calls = <<>>
    /\ sleeps = <<>>
    /\ AdaptersIdle
    /\ env = NoEnv
    /\ exit_status = None
    /\ summary = None
    /\ agent = "constructed"
    /\ caller = "none"

\* get_performance_metrics(campaign_stats) from entry to return
GetPerformanceMetrics ==
    /\ pc = "metrics_start"
    /\ IF MetricsRaise(performance_metrics, campaign_stats)
       THEN /\ pc' = "metrics_raised"
            /\ exc' = [type |-> "ZeroDivisionError",
                       origin |-> "get_performance_metrics"]
            /\ metrics_report' = metrics_report
       ELSE /\ pc' = "metrics_returned"
            /\ metrics_report' = get_performance_metrics(performance_metrics,
                                                 campaign_stats)
            /\ exc' = exc
    /\ UNCHANGED <<leads, idx, lead, results, message, attempt, max_retries,
                   campaign_stats, performance_metrics, now, start_time,
                   campaign_start, calls, sleeps, outcomes, adapterVars,
                   env, agent, exit_status, summary, caller>>

NextMetrics == GetPerformanceMetrics

SpecMetrics == InitMetrics /\ [][NextMetrics]_vars

\* ---------------------------------------------------------------- main()
\* the variables load_configuration requires
RequiredVars ==
    {"ANTHROPIC_API_KEY", "AIRTABLE_API_KEY", "AIRTABLE_BASE_ID",
     "AIRTABLE_TABLE_NAME", "CLICKUP_API_KEY", "CLICKUP_LIST_ID",
     "SMTP_SERVER", "SMTP_USERNAME", "SMTP_PASSWORD", "FROM_EMAIL"}

\* the default of os.getenv("SMTP_PORT", "587")
DefaultPort == Str(<<"5", "8", "7">>)

Digits == <<"0", "1", "2", "3", "4", "5", "6", "7", "8", "9">>

\* the value of the decimal digits ds, most significant first
RECURSIVE DigitsValue(_)
DigitsValue(ds) ==
    IF ds = <<>> THEN 0
    ELSE LET last == ds[Len(ds)]
             d == CHOOSE i \in 1..Len(Digits) : Digits[i] = last
         IN  10 * DigitsValue(SubSeq(ds, 1, Len(ds) - 1)) + (d - 1)

\* int(v) for a string of plain characters: the number it spells, or
\* ValueError for the empty string and for anything that is not a digit
ParseInt(v) ==
    IF v.val # <<>>
       /\ \A i \in 1..Len(v.val) : \E j \in 1..Len(Digits) : Digits[j] = v.val[i]
    THEN IntVal(DigitsValue(v.val))
    ELSE [type |-> "ValueError"]

\* load_configuration: the OutreachConfig, or the ValueError it raises
load_configuration(e) ==
    LET missing_vars == {v \in RequiredVars : ~Truthy(Get(e, v, None))}
        port == ParseInt(Get(e, "SMTP_PORT", DefaultPort))
    IN  IF missing_vars # {} THEN [type |-> "ValueError"]
        ELSE IF port.type = "ValueError" THEN [type |-> "ValueError"]
        ELSE [type |-> "OutreachConfig",
              clickup_list_id |-> e["CLICKUP_LIST_ID"],
              from_email |-> e["FROM_EMAIL"],
              smtp_port |-> port,
              client_info |-> config.client_info,
              offer |-> config.offer]

\* the handlers of main: both log and end the process with status 1
MainExcept(e) ==
    IF IsInstance(e, "ValueError")
    THEN [log |-> "Configuration error", status |-> IntVal(1)]
    ELSE [log |-> "Unexpected error", status |-> IntVal(1)]

\* the value a variable has when it is set
EnvValue(v) ==
    CASE v = "CLICKUP_LIST_ID" -> config.clickup_list_id
      [] v = "FROM_EMAIL" -> config.from_email
      [] v = "SMTP_PORT" -> DefaultPort
      [] OTHER -> Str(<<"k">>)

FullEnv == [v \in RequiredVars \cup {"SMTP_PORT"} |-> EnvValue(v)]

\* the environment e with v unset, and with v set to x
Without(e, v) == [w \in DOMAIN e \ {v} |-> e[w]]
WithValue(e, v, x) == [w \in DOMAIN e \cup {v} |-> IF w = v THEN x ELSE e[w]]

\* the environments main is started in: everything set, or one required
\* variable unset or empty; SMTP_PORT a number, unset, empty or not a number
EnvInputs ==
    LET base == {FullEnv}
                \cup {Without(FullEnv, v) : v \in RequiredVars}
                \cup {WithValue(FullEnv, v, Str(<<>>)) : v \in RequiredVars}
    IN  base
        \cup {Without(b, "SMTP_PORT") : b \in base}
        \cup {WithValue(b, "SMTP_PORT", Str(<<>>)) : b \in base}
        \cup {WithValue(b, "SMTP_PORT", Str(<<"x">>)) : b \in base}

InitMain ==
    /\ pc = "main_start"
    /\ env \in EnvInputs
    /\ agent = "none"
    /\ exit_status = None
    /\ summary = None
    /\ metrics_report = None
    /\ caller = "run_outreach_campaign"
    /\ leads = <<>>
    /\ idx = 0
    /\ lead = [id |-> "none"]
    /\ results = InitialResults
    /\ message = None
    /\ attempt = 0
    /\ max_retries = DefaultMaxRetries
    /\ campaign_stats = InitialStats
    /\ performance_metrics = InitialMetrics
    /\ now = 0
    /\ start_time = 0
    /\ campaign_start = 0
    /\ calls = <<>>
    /\ sleeps = <<>>
    /\ outcomes = <<>>
    /\ exc = NoException
    /\ AdaptersIdle

\* what main's own steps leave unchanged
mainFrame == <<leads, idx, lead, results, message, attempt, max_retries,
               campaign_stats, performance_metrics, now, start_time,
               campaign_start, calls, sleeps, outcomes, adapterVars, env,
               caller>>

\* config = load_configuration(): a ValueError goes to main's handler,
\* which ends the process
LoadConfiguration ==
    /\ pc = "main_start"
    /\ LET c == load_configuration(env) IN
         IF c.type = "ValueError"
         THEN /\ exc' = [type |-> "ValueError", origin |-> "load_configuration"]
              /\ exit_status' = MainExcept("ValueError").status
              /\ pc' = "main_exited"
         ELSE /\ pc' = "main_loaded"
              /\ UNCHANGED <<exc, exit_status>>
    /\ UNCHANGED <<agent, summary, metrics_report, mainFrame>>

\* agent = OutreachAgent(config): the four clients are constructed from
\* non-empty settings, then run_outreach_campaign is entered
ConstructAgent ==
    /\ pc = "main_loaded"
    /\ agent' = "constructed"
    /\ pc' = "start"
    /\ UNCHANGED <<exc, exit_status, summary, metrics_report, mainFrame>>

\* the campaign returned its counters: the metrics are computed and the
\* summary is printed
MainSummary ==
    /\ pc = "returned"
    /\ IF MetricsRaise(performance_metrics, campaign_stats)
       THEN /\ exc' = [type |-> "ZeroDivisionError",
                       origin |-> "get_performance_metrics"]
            /\ exit_status' = MainExcept("ZeroDivisionError").status
            /\ pc' = "main_exited"
            /\ UNCHANGED <<summary, metrics_report>>
       ELSE /\ metrics_report' = get_performance_metrics(performance_metrics,
                                                         campaign_stats)
            /\ summary' = [stats |-> campaign_stats,
                           metrics |-> metrics_report']
            /\ pc' = "main_done"
            /\ UNCHANGED <<exc, exit_status>>
    /\ UNCHANGED <<agent, mainFrame>>

\* the campaign raised: main's handler logs the error and ends the process
MainFails ==
    /\ pc = "raised"
    /\ exit_status' = MainExcept(exc.type).status
    /\ pc' = "main_exited"
    /\ UNCHANGED <<exc, agent, summary, metrics_report, mainFrame>>

NextMain ==
    \/ LoadConfiguration
    \/ ConstructAgent
    \/ Next
    \/ MainSummary
    \/ MainFails

SpecMain == InitMain /\ [][NextMain]_vars

\* ------------------------- one agent used for process_lead and a campaign
InitReuse ==
    /\ pc = "agent_idle"
    /\ agent = "constructed"
    /\ caller = "none"
    /\ ProcessIdle
    /\ leads = <<>>
    /\ idx = 0
    /\ lead = [id |-> "none"]
    /\ results = InitialResults
    /\ message = None
    /\ attempt = 0
    /\ max_retries = DefaultMaxRetries
    /\ campaign_stats = InitialStats
    /\ performance_metrics = InitialMetrics
    /\ now = 0
    /\ start_time = 0
    /\ campaign_start = 0
    /\ calls = <<>>
    /\ sleeps = <<>>
    /\ outcomes = <<>>
    /\ exc = NoException
    /\ AdaptersIdle

\* process_lead(lead) called on the agent directly: results is initialised
\* and the lead validated
CallProcessLead ==
    /\ pc = "agent_idle"
    /\ Len(outcomes) < MaxDirectCalls
    /\ \E l \in LeadMappings :
         /\ lead' = l
         /\ IF validate_lead_data(l)
            THEN /\ results' = [InitialResults EXCEPT !.validation = TRUE]
                 /\ pc' = "generate"
            ELSE /\ results' = InitialResults
                 /\ pc' = "aggregate"
    /\ message' = None
    /\ attempt' = 0
    /\ start_time' = now
    /\ caller' = "direct"
    /\ UNCHANGED <<leads, idx, max_retries, campaign_stats,
                   performance_metrics, now, campaign_start, calls, sleeps,
                   outcomes, exc, adapterVars, metrics_report, env, agent,
                   exit_status, summary>>

\* the direct call returns its results dict to its caller
ProcessLeadReturns ==
    /\ pc = "aggregate"
    /\ caller = "direct"
    /\ outcomes' = Append(outcomes, results)
    /\ pc' = "agent_idle"
    /\ UNCHANGED <<leads, idx, lead, results, message, attempt, max_retries,
                   campaign_stats, performance_metrics, now, start_time,
                   campaign_start, calls, sleeps, exc, adapterVars, mainVars>>

\* run_outreach_campaign is called on the agent: the frames of the earlier
\* calls are gone, and the histories start again with the campaign
CallRunOutreachCampaign ==
    /\ pc = "agent_idle"
    /\ pc' = "start"
    /\ caller' = "run_outreach_campaign"
    /\ lead' = [id |-> "none"]
    /\ results' = InitialResults
    /\ message' = None
    /\ attempt' = 0
    /\ start_time' = 0
    /\ calls' = <<>>
    /\ sleeps' = <<>>
    /\ outcomes' = <<>>
    /\ UNCHANGED <<leads, idx, max_retries, campaign_stats,
                   performance_metrics, now, campaign_start, exc, adapterVars,
                   metrics_report, env, agent, exit_status, summary>>

NextReuse ==
    \/ CallProcessLead
    \/ ProcessLeadReturns
    \/ CallRunOutreachCampaign
    \/ Next

SpecReuse == InitReuse /\ [][NextReuse]_vars


\* =================================================================== claims
\* the record the loop is working on
Current == idx + 1

\* the control thread is inside process_lead
InProcessLead == pc \in {"generate", "email", "task", "aggregate"}

\* positions in the call history of the calls of one adapter for lead i
CallsOf(i, op) ==
    {k \in 1..Len(calls) : calls[k].lead = i /\ calls[k].op = op}

\* adapter calls of any kind made for lead i
AdapterCallsOf(i) == {k \in 1..Len(calls) : calls[k].lead = i}

\* some call of the adapter for lead i ended with the given result
CallResult(i, op, res) == \E k \in CallsOf(i, op) : calls[k].result = res

\* the lead lacks Name, Company or Email (absent or empty), or its Email
\* has no "@"
Deficient(l) ==
    \/ \E f \in Fields : f \notin DOMAIN l \/ l[f].val = <<>>
    \/ /\ "Email" \in DOMAIN l
       /\ \A i \in 1..Len(l["Email"].val) : l["Email"].val[i] # "@"

Outcome(v, g, e, t) ==
    [validation |-> v, message_generation |-> g, email_sent |-> e,
     task_created |-> t]

SetMax(S) == CHOOSE x \in S : \A y \in S : y <= x

\* the generator adapter raised for lead i: its last service call failed
\* with a non-retryable error, or was rate-limited with no retry left
GenerationFailedFor(i) ==
    LET ks == CallsOf(i, "generate") IN
      /\ ks # {}
      /\ \/ calls[SetMax(ks)].result \in {"APIError", "Exception"}
         \/ /\ calls[SetMax(ks)].result = "RateLimitError"
            /\ Cardinality(ks) = max_retries + 1

\* C1: a lead that lacks Name, Company or Email, or whose Email has no "@",
\* gets the all-false outcome from process_lead and no adapter call is made
\* for it: not while it is being processed, and not in the recorded history.
C1_DeficientLeadAllFalseNoCalls ==
    /\ (InProcessLead /\ Deficient(lead)) =>
          /\ pc = "aggregate"
          /\ results = Outcome(FALSE, FALSE, FALSE, FALSE)
          /\ AdapterCallsOf(Current) = {}
    /\ \A i \in 1..Len(outcomes) :
          Deficient(leads[i].fields) =>
             /\ outcomes[i] = Outcome(FALSE, FALSE, FALSE, FALSE)
             /\ AdapterCallsOf(i) = {}

\* scenario B: John at Acme with the address "invalid" has been processed
C1_Witness ==
    /\ pc = "aggregate"
    /\ lead = [Name |-> Str(<<"J">>), Company |-> Str(<<"A">>),
               Email |-> Str(<<"x">>)]
    /\ results = Outcome(FALSE, FALSE, FALSE, FALSE)

\* C2: for every processed lead whose message was generated, send_email
\* and create_task were each called once, and the outcome is (true, true,
\* e, t) with e and t the success of the respective call, independently.
C2_EmailAndTaskBothAttempted ==
    \A i \in 1..Len(outcomes) :
       CallResult(i, "generate", "text") =>
          /\ Cardinality(CallsOf(i, "send_email")) = 1
          /\ Cardinality(CallsOf(i, "create_task")) = 1
          /\ outcomes[i] = Outcome(TRUE, TRUE,
                                   CallResult(i, "send_email", "ok"),
                                   CallResult(i, "create_task", "ok"))

\* scenario D and its mirror image: one lead's email failed and its task
\* was created, another lead's email went out and its task failed
C2_Witness ==
    /\ Len(outcomes) = 2
    /\ outcomes[1] = Outcome(TRUE, TRUE, FALSE, TRUE)
    /\ outcomes[2] = Outcome(TRUE, TRUE, TRUE, FALSE)
    /\ ~CallResult(1, "send_email", "ok")
    /\ ~CallResult(2, "create_task", "ok")

\* C3: no exception leaves process_lead, and when process_lead returns, a
\* stage is true only if it was reached and succeeded.
C3_ProcessLeadNeverRaises ==
    /\ exc.origin # "process_lead"
    /\ pc = "aggregate" =>
          /\ results.validation => ~Deficient(lead)
          /\ results.message_generation =>
                CallResult(Current, "generate", "text")
          /\ results.email_sent => CallResult(Current, "send_email", "ok")
          /\ results.task_created => CallResult(Current, "create_task", "ok")

\* process_lead returned after the SMTP session failed with an unexpected
\* error and the task request failed too
C3_Witness ==
    /\ pc = "aggregate"
    /\ CallResult(Current, "send_email", "Exception")
    /\ CallResult(Current, "create_task", "RequestException")
    /\ results = Outcome(TRUE, TRUE, FALSE, FALSE)

\* C4: when the generator adapter raised for a validated lead, process_lead
\* returns (true, false, false, false) and neither send_email nor
\* create_task is called for that lead.
C4_GenerationFailureStopsLead ==
    /\ (idx < Len(leads) /\ GenerationFailedFor(Current)) =>
          /\ pc = "aggregate"
          /\ results = Outcome(TRUE, FALSE, FALSE, FALSE)
          /\ CallsOf(Current, "send_email") = {}
          /\ CallsOf(Current, "create_task") = {}
    /\ \A i \in 1..Len(outcomes) :
          GenerationFailedFor(i) =>
             /\ outcomes[i] = Outcome(TRUE, FALSE, FALSE, FALSE)
             /\ CallsOf(i, "send_email") = {}
             /\ CallsOf(i, "create_task") = {}

\* the generator was rate-limited on the first call and on all its retries
C4_Witness ==
    /\ pc = "aggregate"
    /\ Cardinality(CallsOf(Current, "generate")) = DefaultMaxRetries + 1
    /\ \A k \in CallsOf(Current, "generate") :
          calls[k].result = "RateLimitError"
    /\ results = Outcome(TRUE, FALSE, FALSE, FALSE)

\* number of processed leads whose outcome is all false
AllFalseCount ==
    Cardinality({i \in 1..Len(outcomes) :
                   outcomes[i] = Outcome(FALSE, FALSE, FALSE, FALSE)})

\* C5: failed_leads equals the number of leads processed so far whose
\* outcome is (false, false, false, false), and a processed lead has that
\* outcome exactly when it failed validation.
C5_FailedLeadsCountsAllFalse ==
    /\ campaign_stats.failed_leads = AllFalseCount
    /\ \A i \in 1..Len(outcomes) :
          (outcomes[i] = Outcome(FALSE, FALSE, FALSE, FALSE))
             <=> Deficient(leads[i].fields)

\* a validated lead whose generation failed and a lead that failed
\* validation have both been processed: only the second one is counted
C5_Witness ==
    /\ Len(outcomes) = 2
    /\ outcomes[1] = Outcome(TRUE, FALSE, FALSE, FALSE)
    /\ outcomes[2] = Outcome(FALSE, FALSE, FALSE, FALSE)
    /\ campaign_stats.failed_leads = 1

\* C6: in the returned CampaignStats validated_leads + failed_leads =
\* total_leads, and total_leads is the number of records the store returned.
C6_ValidatedPlusFailedIsTotal ==
    pc = "returned" =>
       /\ campaign_stats.validated_leads + campaign_stats.failed_leads
             = campaign_stats.total_leads
       /\ campaign_stats.total_leads = Len(leads)

\* a campaign over one validated and one rejected lead has returned
C6_Witness ==
    /\ pc = "returned"
    /\ campaign_stats.total_leads = 2
    /\ campaign_stats.validated_leads = 1
    /\ campaign_stats.failed_leads = 1

Delta(b) == IF b THEN 1 ELSE 0

\* C7: the step that accounts for a processed lead raises each of
\* validated_leads, messages_generated, emails_sent and tasks_created by 1
\* if the lead's corresponding outcome is true and leaves it unchanged if
\* not; after an all-true outcome failed_leads is unchanged; no other step
\* inside the loop changes a counter.
C7_CountersFollowOutcome ==
    [][/\ pc = "aggregate" =>
            /\ campaign_stats'.validated_leads =
                  campaign_stats.validated_leads + Delta(results.validation)
            /\ campaign_stats'.messages_generated =
                  campaign_stats.messages_generated
                     + Delta(results.message_generation)
            /\ campaign_stats'.emails_sent =
                  campaign_stats.emails_sent + Delta(results.email_sent)
            /\ campaign_stats'.tasks_created =
                  campaign_stats.tasks_created + Delta(results.task_created)
            /\ campaign_stats'.total_leads = campaign_stats.total_leads
            /\ results = Outcome(TRUE, TRUE, TRUE, TRUE) =>
                  campaign_stats'.failed_leads = campaign_stats.failed_leads
       /\ pc \in {"loop", "generate", "email", "task"} =>
            campaign_stats' = campaign_stats]_vars

\* scenario A: one lead with every stage succeeding has been accounted for
C7_Witness ==
    /\ outcomes = <<Outcome(TRUE, TRUE, TRUE, TRUE)>>
    /\ pc = "loop"
    /\ campaign_stats.validated_leads = 1
    /\ campaign_stats.messages_generated = 1
    /\ campaign_stats.emails_sent = 1
    /\ campaign_stats.tasks_created = 1
    /\ campaign_stats.failed_leads = 0

\* C8: when get_leads fails, run_outreach_campaign raises that failure,
\* returns nothing, and no lead is processed and no other adapter is called.
C8_FetchFailureIsFatal ==
    CallResult(0, "get_leads", "error") =>
       /\ pc = "raised"
       /\ exc.origin = "get_leads"
       /\ exc.type \in FetchErrors
       /\ outcomes = <<>>
       /\ Len(calls) = 1

\* the store request failed with an HTTP error and the campaign raised it
C8_Witness ==
    /\ pc = "raised"
    /\ exc = [type |-> "HTTPError", origin |-> "get_leads"]
    /\ calls = <<[lead |-> 0, op |-> "get_leads", result |-> "error"]>>

\* C9: whenever get_leads returned a batch, no exception reaches the caller
\* of run_outreach_campaign, whatever the records contain.
C9_OnlyFetchFailureIsFatal ==
    CallResult(0, "get_leads", "ok") => exc = NoException

\* the adapter calls appear in the history in the order of the records,
\* only for records the loop has reached, and the leads accounted for are
\* exactly the records before the current one
SequentialProcessing ==
    /\ \A k1, k2 \in 1..Len(calls) :
          k1 < k2 => calls[k1].lead <= calls[k2].lead
    /\ \A k \in 1..Len(calls) : calls[k].lead <= Current
    /\ Len(outcomes) = idx
    /\ idx <= Len(leads)

\* C10: leads are processed in store order, each once, all adapter calls of
\* a lead before the next lead begins, and once a batch was fetched the
\* campaign does not end before every lead of the batch has been processed.
C10_EveryLeadProcessedInOrder ==
    /\ SequentialProcessing
    /\ (pc \in {"returned", "raised"} /\ CallResult(0, "get_leads", "ok")) =>
          Len(outcomes) = Len(leads)

\* the service calls generate_outreach_message made, called on its own
GenCalls == CallsOf(1, "generate")

\* C11: with max_retries >= 0 generate_outreach_message makes at most
\* max_retries + 1 service calls and its loop always has an attempt left
\* while it runs; when every call was rate-limited it ends only after
\* exactly max_retries + 1 calls, by raising the rate-limit error.
C11_BoundedRetries ==
    max_retries >= 0 =>
       /\ Cardinality(GenCalls) <= max_retries + 1
       /\ pc = "gen_loop" =>
             /\ attempt = Cardinality(GenCalls)
             /\ attempt <= max_retries
       /\ (/\ Cardinality(GenCalls) = max_retries + 1
           /\ \A k \in GenCalls : calls[k].result = "RateLimitError") =>
             /\ pc = "gen_raised"
             /\ exc.type = "RateLimitError"
       /\ (/\ pc \in {"gen_returned", "gen_raised"}
           /\ GenCalls # {}
           /\ \A k \in GenCalls : calls[k].result = "RateLimitError") =>
             Cardinality(GenCalls) = max_retries + 1

\* with the default of 3 retries, four rate-limited calls were made and the
\* rate-limit error was raised
C11_Witness ==
    /\ max_retries = DefaultMaxRetries
    /\ pc = "gen_raised"
    /\ exc.type = "RateLimitError"
    /\ Cardinality(GenCalls) = 4
    /\ \A k \in GenCalls : calls[k].result = "RateLimitError"

\* the results of the service calls made for lead i, in call order
GenerateResultsOf(i) ==
    LET IsGen(c) == c.lead = i /\ c.op = "generate"
        gen == SelectSeq(calls, IsGen)
    IN  [k \in 1..Len(gen) |-> gen[k].result]

\* the waits made for lead i, in order
WaitsOf(i) ==
    LET IsMine(w) == w.lead = i
        mine == SelectSeq(sleeps, IsMine)
    IN  [k \in 1..Len(mine) |-> mine[k].wait]

\* C12: the k-th wait made for a lead lasts 2^(k-1) seconds; every wait
\* directly follows a rate-limited service call of that lead and is followed
\* by the lead's next call; every rate-limited call but the last allowed one
\* is followed by a wait, so no wait follows a success or the last attempt;
\* a lead whose calls were rate-limited twice and then answered waited 1 s
\* and 2 s, has its message generated and is counted in messages_generated.
C12_ExponentialBackoff ==
    /\ \A j \in 1..Len(sleeps) :
          LET w == sleeps[j]
              k == Cardinality({h \in 1..j : sleeps[h].lead = w.lead})
          IN  /\ w.wait = 2^(k - 1)
              /\ k <= max_retries
              /\ w.after \in 1..Len(calls)
              /\ calls[w.after] = [lead |-> w.lead, op |-> "generate",
                                   result |-> "RateLimitError"]
              /\ IF w.after < Len(calls)
                 THEN /\ calls[w.after + 1].lead = w.lead
                      /\ calls[w.after + 1].op = "generate"
                 ELSE pc = "generate" /\ Current = w.lead
              /\ \A h \in 1..Len(sleeps) :
                    sleeps[h].after = w.after => h = j
    /\ \A c \in 1..Len(calls) :
          (/\ calls[c].op = "generate"
           /\ calls[c].result = "RateLimitError"
           /\ Cardinality({d \in CallsOf(calls[c].lead, "generate") : d <= c})
                 <= max_retries)
             => \E j \in 1..Len(sleeps) : sleeps[j].after = c
    /\ \A i \in 1..Len(outcomes) :
          GenerateResultsOf(i) = <<"RateLimitError", "RateLimitError", "text">>
             => /\ WaitsOf(i) = <<1, 2>>
                /\ outcomes[i].message_generation
    /\ campaign_stats.messages_generated =
          Cardinality({i \in 1..Len(outcomes) : outcomes[i].message_generation})

\* scenario C: the first lead was rate-limited twice, answered on the third
\* attempt after waits of 1 s and 2 s, and has been counted
C12_Witness ==
    /\ Len(outcomes) = 1
    /\ GenerateResultsOf(1) = <<"RateLimitError", "RateLimitError", "text">>
    /\ WaitsOf(1) = <<1, 2>>
    /\ outcomes[1].message_generation
    /\ campaign_stats.messages_generated = 1

\* C13: a service call that fails with anything but a rate limit is the
\* last call generate_outreach_message makes: the failure is raised at
\* once, with no wait after it, at whichever attempt it occurs.
C13_OtherFailuresAreImmediate ==
    \A c \in GenCalls :
       calls[c].result \in {"APIError", "Exception"} =>
          /\ c = Len(calls)
          /\ pc = "gen_raised"
          /\ exc = [type |-> calls[c].result,
                    origin |-> "generate_outreach_message"]
          /\ \A j \in 1..Len(sleeps) : sleeps[j].after < c
          /\ Len(sleeps) = c - 1

\* the third attempt, after two rate limits, failed with an API error
C13_Witness ==
    /\ pc = "gen_raised"
    /\ GenerateResultsOf(1) = <<"RateLimitError", "RateLimitError", "APIError">>
    /\ exc.type = "APIError"
    /\ WaitsOf(1) = <<1, 2>>

\* record i of the batch carries a lead that passes validation
ValidRecord(i) ==
    "fields" \in DOMAIN leads[i] /\ ~Deficient(leads[i].fields)

\* C14: the generator adapter is invoked once for each validated lead (a
\* run of service calls in which only the last is not a rate limit, at most
\* max_retries + 1 long) and never for another lead; send_email and
\* create_task are each called once for a lead whose message was generated,
\* never for another lead, and never a second time.
C14_OneInvocationPerStage ==
    \A i \in 1..Len(leads) :
       LET gen == GenerateResultsOf(i) IN
         /\ ~ValidRecord(i) => AdapterCallsOf(i) = {}
         /\ Len(gen) <= max_retries + 1
         /\ \A k \in 1..(Len(gen) - 1) : gen[k] = "RateLimitError"
         /\ Cardinality(CallsOf(i, "send_email")) <= 1
         /\ Cardinality(CallsOf(i, "create_task")) <= 1
         /\ CallsOf(i, "send_email") # {} => CallResult(i, "generate", "text")
         /\ CallsOf(i, "create_task") # {} => CallResult(i, "generate", "text")
         /\ i <= Len(outcomes) =>
               /\ ValidRecord(i) => Len(gen) >= 1
               /\ Cardinality(CallsOf(i, "send_email"))
                     = Delta(outcomes[i].message_generation)
               /\ Cardinality(CallsOf(i, "create_task"))
                     = Delta(outcomes[i].message_generation)

\* a lead whose email and task both failed got one call of each, and the
\* rejected lead after it got no call at all
C14_Witness ==
    /\ Len(outcomes) = 2
    /\ outcomes[1] = Outcome(TRUE, TRUE, FALSE, FALSE)
    /\ Cardinality(CallsOf(1, "send_email")) = 1
    /\ Cardinality(CallsOf(1, "create_task")) = 1
    /\ outcomes[2] = Outcome(FALSE, FALSE, FALSE, FALSE)
    /\ AdapterCallsOf(2) = {}

\* C15: the validation step accepts a lead exactly when Name, Company and
\* Email are present and non-empty and Email contains "@"; it makes no
\* adapter call, waits for nothing and changes no counter or metric; and
\* two records with the same lead get the same validation result.
C15_ValidatorIsExactAndPure ==
    [][(pc = "loop" /\ pc' \in {"generate", "aggregate"}) =>
          /\ (pc' = "generate") <=> ~Deficient(lead')
          /\ results'.validation <=> ~Deficient(lead')
          /\ calls' = calls
          /\ sleeps' = sleeps
          /\ now' = now
          /\ campaign_stats' = campaign_stats
          /\ performance_metrics' = performance_metrics
          /\ \A i \in 1..Len(outcomes) :
                leads[i].fields = lead' =>
                   outcomes[i].validation = results'.validation]_vars

\* John at Acme with a well-formed address was accepted a second time,
\* and no adapter has been called for the second record yet
C15_Witness ==
    /\ pc = "generate"
    /\ Len(outcomes) = 1
    /\ outcomes[1].validation
    /\ leads[1].fields = lead
    /\ lead = [Name |-> Str(<<"J">>), Company |-> Str(<<"A">>),
               Email |-> Str(<<"j", "@", "a">>)]
    /\ results = Outcome(TRUE, FALSE, FALSE, FALSE)
    /\ AdapterCallsOf(Current) = {}

\* the inputs send_email has to reject: an empty recipient, subject or body,
\* or a recipient without "@"
Rejectable(to_email, subj, text) ==
    \/ to_email.val = <<>>
    \/ subj.val = <<>>
    \/ text.val = <<>>
    \/ \A i \in 1..Len(to_email.val) : to_email.val[i] # "@"

\* the steps of the SMTP session of the k-th send_email call, in order
SessionOf(k) ==
    LET IsMine(e) == e.rcpt = k
        mine == SelectSeq(smtp_log, IsMine)
    IN  [j \in 1..Len(mine) |-> <<mine[j].step, mine[j].result>>]

\* C16: send_bulk_emails never raises; the k-th send_email call is the one
\* for the k-th recipient of the list, so recipients are served once each
\* and in order, whatever the earlier calls did; and when the report is
\* returned every recipient has had its call.
C16_BulkServesEveryRecipient ==
    /\ pc # "bulk_raised"
    /\ exc = NoException
    /\ Len(send_returns) = bulk_i
    /\ bulk_i <= Len(email_list)
    /\ \A k \in 1..Len(send_returns) :
          /\ send_returns[k].rcpt = k
          /\ send_returns[k].email = email_list[k]
    /\ \A j1, j2 \in 1..Len(smtp_log) :
          j1 < j2 => smtp_log[j1].rcpt <= smtp_log[j2].rcpt
    /\ \A j \in 1..Len(smtp_log) : smtp_log[j].rcpt \in 1..Len(email_list)
    /\ pc = "bulk_returned" => Len(send_returns) = Len(email_list)

\* the first recipient was rejected, the second failed in its SMTP session,
\* the third was still served, and the report was returned
C16_Witness ==
    /\ pc = "bulk_returned"
    /\ Len(send_returns) = 3
    /\ send_returns[1].result = "ValueError"
    /\ send_returns[2].result = "SMTPException"
    /\ send_returns[3].result = "ok"

\* positions of the send_email calls that ended as given
ReturnsWhere(Test(_)) == {k \in 1..Len(send_returns) : Test(send_returns[k])}

\* C17: once send_bulk_emails has set up its report, total is the number of
\* recipients given, successful and failed count the calls that returned
\* and that raised, errors lists the failed recipients in input order, one
\* entry each, and in the returned report successful + failed = total.
C17_BulkReportIsExact ==
    pc \in {"bulk_loop", "smtp", "bulk_returned"} =>
       LET Ok(r) == r.result = "ok"
           Bad(r) == r.result # "ok"
           bad == SelectSeq(send_returns, Bad)
       IN  /\ bulk_results.total = Len(email_list)
           /\ bulk_results.successful = Cardinality(ReturnsWhere(Ok))
           /\ bulk_results.failed = Cardinality(ReturnsWhere(Bad))
           /\ bulk_results.errors =
                 [j \in 1..Len(bad) |->
                    [email |-> bad[j].email, error |-> bad[j].result]]
           /\ \A j1, j2 \in 1..Len(bad) : j1 < j2 => bad[j1].rcpt < bad[j2].rcpt
           /\ pc = "bulk_returned" =>
                 bulk_results.successful + bulk_results.failed
                    = bulk_results.total

\* scenario E: three well-formed recipients, the transmission to the second
\* one fails
C17_Witness ==
    /\ pc = "bulk_returned"
    /\ email_list = [k \in 1..3 |-> Str(<<"j", "@", "a">>)]
    /\ SessionOf(2) = <<<<"connect", "ok">>, <<"starttls", "ok">>,
                        <<"login", "ok">>, <<"send_message", "SMTPException">>,
                        <<"close", "ok">>>>
    /\ bulk_results =
          [total |-> 3, successful |-> 2, failed |-> 1,
           errors |-> <<[email |-> Str(<<"j", "@", "a">>),
                         error |-> "SMTPException"]>>]

\* C18: a send_email call whose recipient, subject or body is empty, or
\* whose recipient has no "@", ends with the invalid-input error, and no
\* step of an SMTP session (no connection, no transmission) exists for it.
C18_RejectedBeforeConnecting ==
    /\ \A k \in 1..Len(send_returns) :
          Rejectable(send_returns[k].email, bulk_subject, bulk_body) =>
             /\ send_returns[k].result = "ValueError"
             /\ SessionOf(k) = <<>>
    /\ \A j \in 1..Len(smtp_log) :
          ~Rejectable(email_list[smtp_log[j].rcpt], bulk_subject, bulk_body)
    /\ (pc \in {"bulk_loop", "smtp"} /\ smtp_state # "none") =>
          ~Rejectable(email_list[bulk_i + 1], bulk_subject, bulk_body)

\* with a subject and a body, the recipient "x" was rejected without any
\* session, and the well-formed recipient after it got one
C18_Witness ==
    /\ Len(send_returns) = 2
    /\ bulk_subject = Str(<<"s">>)
    /\ bulk_body = Str(<<"s">>)
    /\ send_returns[1] = [rcpt |-> 1, email |-> Str(<<"x">>),
                          result |-> "ValueError"]
    /\ SessionOf(1) = <<>>
    /\ SessionOf(2) # <<>>

SessionOrder == <<"connect", "starttls", "login", "send_message">>

\* the session s has the shape the code allows: the steps connect, starttls,
\* login, send_message in that order, each after the success of the one
\* before, ending at the first failure or after send_message, and closed by
\* the block's exit whenever the connection had been opened; a finished
\* session gave its caller the result ret
SessionShape(s, done, ret) ==
    \E n \in 1..4 : \E r \in TransportOutcomes :
       LET core == [j \in 1..n |->
                      <<SessionOrder[j], IF j < n THEN "ok" ELSE r>>]
       IN  IF r = "ok" /\ n < 4
           THEN ~done /\ s = core
           ELSE /\ done
                /\ ret = r
                /\ s = IF n = 1 THEN core ELSE Append(core, <<"close", "ok">>)

\* C19: between send_email calls and after the last one no connection is
\* open; every accepted call has its own session, which connects once,
\* upgrades to TLS and logs in before it transmits, transmits at most once,
\* and is closed after a failure of starttls, login or send_message as
\* after a success; the caller gets the session's failure as the error.
C19_FreshSessionAlwaysClosed ==
    /\ pc \in {"bulk_start", "bulk_loop", "bulk_returned"} =>
          smtp_state = "none"
    /\ pc = "smtp" => smtp_state \in {"connected", "tls", "auth"}
    /\ \A k \in 1..Len(email_list) :
          LET done == k <= Len(send_returns)
              ret == IF done THEN send_returns[k].result ELSE "none"
          IN  SessionOf(k) # <<>> => SessionShape(SessionOf(k), done, ret)
    /\ \A k \in 1..Len(send_returns) :
          send_returns[k].result # "ValueError" => SessionOf(k) # <<>>

\* one call failed at the TLS upgrade, the next at the login, the third
\* transmitted; each had its own session and each session was closed
C19_Witness ==
    /\ pc = "bulk_loop"
    /\ smtp_state = "none"
    /\ SessionOf(1) = <<<<"connect", "ok">>, <<"starttls", "SMTPException">>,
                        <<"close", "ok">>>>
    /\ SessionOf(2) = <<<<"connect", "ok">>, <<"starttls", "ok">>,
                        <<"login", "Exception">>, <<"close", "ok">>>>
    /\ SessionOf(3) = <<<<"connect", "ok">>, <<"starttls", "ok">>,
                        <<"login", "ok">>, <<"send_message", "ok">>,
                        <<"close", "ok">>>>
    /\ send_returns[1].result = "SMTPException"
    /\ send_returns[2].result = "Exception"
    /\ send_returns[3].result = "ok"

\* C20: create_task puts a priority into the posted body exactly when a
\* priority is given and lies in 1..4, and then it is the given one; with
\* list_id and name present the request is posted whatever the priority
\* is (absent, 0, negative, 5 or more), and create_task raises only for a
\* missing list_id or name, before posting, or with the failure of the
\* post itself.
C20_PriorityOnlyInRange ==
    pc \in {"task_posted", "task_returned", "task_raised"} =>
       LET p == task_args.priority
           inRange == p # None /\ p.val \in 1..4
           named == task_args.list_id.val # <<>> /\ task_args.name.val # <<>>
       IN  /\ request.sent <=> named
           /\ request.sent =>
                 /\ "priority" \in DOMAIN request.json <=> inRange
                 /\ inRange => request.json["priority"] = p
                 /\ request.json["name"] = task_args.name
           /\ pc = "task_returned" => request.sent /\ request.response = "ok"
           /\ pc = "task_raised" =>
                 IF request.sent
                 THEN /\ request.response \in {"HTTPError", "RequestException"}
                      /\ exc.type = request.response
                 ELSE exc.type = "ValueError"

\* a priority of 5 was given: the body went out with its description and
\* without a priority, and the response was returned
C20_Witness ==
    /\ pc = "task_returned"
    /\ task_args.priority = IntVal(5)
    /\ request.sent
    /\ DOMAIN request.json = {"name", "description"}
    /\ exc = NoException

\* C21: when the lead has no 'name' or no 'company', or the client profile
\* has no 'name', generate_outreach_message ends by raising ValueError, and
\* it has then called the generation service not once and slept not once
\* (no time has passed at all).
C21_MissingFieldBeforeAnyCall ==
    (/\ pc \in {"gen_loop", "gen_returned", "gen_raised"}
     /\ \/ "name" \notin DOMAIN gen_lead
        \/ "company" \notin DOMAIN gen_lead
        \/ "name" \notin DOMAIN gen_client_info)
    => /\ pc = "gen_raised"
       /\ exc = [type |-> "ValueError", origin |-> "generate_outreach_message"]
       /\ calls = <<>>
       /\ sleeps = <<>>
       /\ now = 0
       /\ message = None

\* a complete lead with a client profile that has no 'name' was refused
C21_Witness ==
    /\ pc = "gen_raised"
    /\ DOMAIN gen_lead = {"name", "company"}
    /\ "name" \notin DOMAIN gen_client_info
    /\ exc.type = "ValueError"
    /\ calls = <<>>

\* the sum of the waits of a sequence of sleeps
RECURSIVE SumWaits(_)
SumWaits(sl) == IF sl = <<>> THEN 0 ELSE Head(sl).wait + SumWaits(Tail(sl))

\* the time the attempts of one stage took, over all leads: every call of
\* the stage's adapter that did network work, and for the generator the
\* waits between its attempts
StageElapsed(op) ==
    CallDuration * Cardinality({k \in 1..Len(calls) :
                                  calls[k].op = op /\ calls[k].result # "ValueError"})
    + (IF op = "generate" THEN SumWaits(sleeps) ELSE 0)

\* C23: when the campaign has returned, each stage accumulator is the time
\* all attempts of its stage took, failed attempts included.
C23_AccumulatorsCoverEveryAttempt ==
    pc = "returned" =>
       /\ performance_metrics.message_generation_time = StageElapsed("generate")
       /\ performance_metrics.email_sending_time = StageElapsed("send_email")
       /\ performance_metrics.task_creation_time = StageElapsed("create_task")

\* the generator adapter returned to the workflow of lead i without raising
GeneratorReturnedFor(i) ==
    \E k \in CallsOf(i, "generate") : calls[k].result \in {"text", "empty"}

\* C26: when process_lead has finished a lead that passed validation, its
\* message_generation outcome is true exactly when the generator adapter
\* returned without raising, whatever it returned, and in that case the
\* email adapter and the task adapter were both called for the lead.
C26_GenerationOutcomeIsAdapterReturn ==
    (pc = "aggregate" /\ results.validation) =>
       /\ results.message_generation <=> GeneratorReturnedFor(Current)
       /\ GeneratorReturnedFor(Current) =>
             /\ CallsOf(Current, "send_email") # {}
             /\ CallsOf(Current, "create_task") # {}

\* the order the counters of one campaign keep among themselves
CounterOrder(stats) ==
    /\ stats.emails_sent <= stats.messages_generated
    /\ stats.tasks_created <= stats.messages_generated
    /\ stats.messages_generated <= stats.validated_leads
    /\ stats.validated_leads + stats.failed_leads <= stats.total_leads

\* C27: before the campaign's first step every counter is 0; every step of
\* the campaign starts and ends in a state where emails_sent and
\* tasks_created are at most messages_generated, messages_generated at
\* most validated_leads and validated_leads + failed_leads at most
\* total_leads; and no step makes any counter smaller.
C27_CountersOrderedAndMonotone ==
    [][/\ pc = "start" => campaign_stats = InitialStats
       /\ CounterOrder(campaign_stats)
       /\ CounterOrder(campaign_stats')
       /\ \A k \in DOMAIN InitialStats : campaign_stats[k] <= campaign_stats'[k]
      ]_vars

\* two leads were processed: one was refused by validation, the other got
\* its message and its task but not its email
C27_Witness ==
    /\ pc = "returned"
    /\ campaign_stats =
          [total_leads |-> 2, validated_leads |-> 1, messages_generated |-> 1,
           emails_sent |-> 0, tasks_created |-> 1, failed_leads |-> 1]

\* C29: a call of generate_outreach_message whose inputs pass the
\* missing-field check, with any max_retries, has called the service at
\* least once when it ends, and when it ends by returning, the value is the
\* message of its last service call, which succeeded.
C29_EndsWithMessageOrError ==
    (/\ pc \in {"gen_returned", "gen_raised"}
     /\ {"name", "company"} \subseteq DOMAIN gen_lead
     /\ "name" \in DOMAIN gen_client_info)
    => /\ calls # <<>>
       /\ pc = "gen_returned" =>
             /\ message # None
             /\ calls[Len(calls)].result \in {"text", "empty"}
       /\ pc = "gen_raised" => exc.type = calls[Len(calls)].result

\* C30: whenever the workflow is about to call send_email, the recipient is
\* non-empty and has an "@" and the body is a non-empty message; no
\* send_email call of the campaign ends with the input rejection; and a
\* lead with a message and without an email sent had its send_email call
\* fail with a transport or an unexpected error.
C30_EmailRejectionUnreachable ==
    /\ pc = "email" =>
          /\ message.type = "str"
          /\ ~Rejectable(lead["Email"],
                         Str(<<"L">> \o lead["Company"].val \o <<"!">>),
                         message)
    /\ \A k \in 1..Len(calls) :
          calls[k].op = "send_email" => calls[k].result \in TransportOutcomes
    /\ \A i \in 1..Len(outcomes) :
          (outcomes[i].message_generation /\ ~outcomes[i].email_sent) =>
             \/ CallResult(i, "send_email", "SMTPException")
             \/ CallResult(i, "send_email", "Exception")

\* a lead got its message, its email failed in the transport, and the
\* workflow went on
C30_Witness ==
    /\ Len(outcomes) = 1
    /\ outcomes[1] = Outcome(TRUE, TRUE, FALSE, TRUE)
    /\ CallResult(1, "send_email", "SMTPException")
    /\ pc = "email"

\* the stage's accumulator and counter behind each average
AverageOf ==
    [average_message_time |->
         [time |-> "message_generation_time", count |-> "messages_generated"],
     average_email_time |->
         [time |-> "email_sending_time", count |-> "emails_sent"],
     average_task_time |->
         [time |-> "task_creation_time", count |-> "tasks_created"]]

\* C24: get_performance_metrics never raises a division by zero; each
\* average it returns is the stage's accumulated time over a divisor of at
\* least 1, which is the stage's counter when that is positive and 1 when
\* the counter is 0, so that the average is then the accumulated time.
C24_AveragesNeverDivideByZero ==
    /\ pc # "metrics_raised"
    /\ pc = "metrics_returned" =>
          \A a \in AverageKeys :
             LET time == AverageOf[a].time
                 count == AverageOf[a].count
             IN  /\ metrics_report[a].type = "float"
                 /\ metrics_report[a].num = performance_metrics[time]
                 /\ metrics_report[a].den >= 1
                 /\ count \in DOMAIN campaign_stats =>
                       metrics_report[a].den =
                          IF campaign_stats[count] = 0 THEN 1
                          ELSE campaign_stats[count]

\* no message was generated and two time units were accumulated: the
\* average is 2 over 1, while the email average is 2 over 2
C24_Witness ==
    /\ pc = "metrics_returned"
    /\ DOMAIN campaign_stats = CounterKeys
    /\ campaign_stats.messages_generated = 0
    /\ campaign_stats.emails_sent = 2
    /\ performance_metrics.message_generation_time = 2
    /\ performance_metrics.email_sending_time = 2
    /\ metrics_report.average_message_time =
          [type |-> "float", num |-> 2, den |-> 1]
    /\ metrics_report.average_email_time =
          [type |-> "float", num |-> 2, den |-> 2]

\* some configuration value main reads from the environment, the SMTP port
\* included, is unset or empty
ConfigurationIncomplete ==
    \E v \in RequiredVars \cup {"SMTP_PORT"} :
       v \notin DOMAIN env \/ env[v].val = <<>>

\* C22: when any configuration value, the SMTP port included, is unset or
\* empty, main ends after load_configuration with the configuration error:
\* the process has exited with status 1, no client was constructed and no
\* adapter call was made.
C22_EveryConfigValueRequired ==
    (pc # "main_start" /\ ConfigurationIncomplete) =>
       /\ pc = "main_exited"
       /\ exit_status = IntVal(1)
       /\ exc = [type |-> "ValueError", origin |-> "load_configuration"]
       /\ agent = "none"
       /\ calls = <<>>

\* the lead fetch of the run failed
FetchFailed ==
    calls = <<[lead |-> 0, op |-> "get_leads", result |-> "error"]>>

\* C25: a run of main with a valid configuration that has ended either
\* exited with a non-zero status after a failed lead fetch and printed no
\* summary, or printed the summary of the returned campaign; nothing that
\* happens to a lead leads to the first ending.
C25_SummaryUnlessFetchFailed ==
    (pc \in {"main_done", "main_exited"} /\ agent = "constructed") =>
       \/ /\ pc = "main_exited"
          /\ exit_status = IntVal(1)
          /\ summary = None
          /\ FetchFailed
       \/ /\ pc = "main_done"
          /\ exit_status = None
          /\ ~FetchFailed
          /\ summary # None
          /\ summary.stats = campaign_stats
          /\ summary.stats.total_leads = Len(leads)

\* C28: the accumulators of a campaign cover that campaign only: when the
\* campaign has fetched its leads and processed none, the three stage
\* accumulators are 0, like the counters; and when it has returned, the
\* three stage times together are at most the campaign's total time.
C28_AccumulatorsRestartPerRun ==
    /\ (caller = "run_outreach_campaign" /\ pc = "loop" /\ idx = 0) =>
          /\ campaign_stats = [InitialStats EXCEPT !.total_leads = Len(leads)]
          /\ performance_metrics.message_generation_time = 0
          /\ performance_metrics.email_sending_time = 0
          /\ performance_metrics.task_creation_time = 0
    /\ pc = "returned" =>
          performance_metrics.message_generation_time
             + performance_metrics.email_sending_time
             + performance_metrics.task_creation_time
          <= performance_metrics.total_processing_time

====
